---- MODULE Spec2Model ----
(***************************************************************************)
(* Model of the Helix client's session / event synchronisation layer:     *)
(* SocketProvider (context/SocketProvider.tsx), the useLocalStorage hook   *)
(* and the two UI callers that guard the provider's outbound operations.   *)
(*                                                                         *)
(* Text that the code computes on (chat input, session ids, the stored     *)
(* JSON text) is a sequence of one-character strings.  A nullable value is *)
(* Null (no value) or Some(x).                                             *)
(***************************************************************************)
EXTENDS Integers, Sequences, FiniteSets, TLC

VARIABLES
    storage,            \* localStorage["session_id"]: Null (no item) or Some(text)
    sessionId,          \* useLocalStorage state of the latest render
    capturedSessionId,  \* the sessionId closed over by the mount effect (first render)
    chat,               \* ConversationMessage[]
    toolNotification,   \* string | null
    sequence,           \* OutreachMessage[]
    conn,               \* the socket: "connecting", "connected", "dropped", "closed"
    mounted,            \* FALSE once the effect cleanup has run
    pending,            \* axios.post calls awaiting their response
    postCount,          \* POST /api/session requests issued so far
    connectCount,       \* "connect" events handled so far
    sendCount,          \* handleSend invocations so far
    editCount,          \* sendSequenceUpdate invocations so far
    timers,             \* pending setTimeout callbacks, in registration order
    now,                \* the clock, in ms
    inbound,            \* history: inbound transport events, with arrival time
    out,                \* history: calls made on the outside world, in order
    last,               \* history: the handler that ran last, with its input
    origin,             \* history: for each chat entry, its originating event
    store               \* a useLocalStorage instance on its own (none in the provider's runs)

vars == <<storage, sessionId, capturedSessionId, chat, toolNotification, sequence,
          conn, mounted, pending, postCount, connectCount, sendCount, editCount,
          timers, now, inbound, out, last, origin, store>>

----------------------------------------------------------------------------
(* Bounds of the model *)

MaxConnects == 2
MaxPosts == 3
MaxSends == 1
MaxEdits == 1
MaxInbound == 3
MaxTime == 3000
Step == 1000

(* Program constant: the visibility delay of the two result handlers *)
Delay == 2000

----------------------------------------------------------------------------
(* Values *)

Null == <<>>
Some(x) == <<x>>
Val(o) == o[1]

Quote == "\""
NullText == <<"n", "u", "l", "l">>

\* ids the session-creation endpoint may return, and the id a previous visit stored
NewIds == {<<"a">>, <<"b">>}
StoredIds == {<<"z">>}

\* what the user may have typed into the chat box
Inputs == {<<>>, <<" ", " ">>, <<"h", "i">>, <<" ", "h">>}

ToolMessages == {"Searching"}
ResultMessages == {<<"o", "k">>}
Roles == {"assistant"}
ItemIds == {"m1", "m2"}
Contents == {"c1", "c2"}

Item(id, c, n) ==
    [id |-> id, type |-> "follow_up", subject |-> "S", content |-> c,
     timing |-> "day 1", order |-> n]

Snapshots ==
    { <<Item("m1", "c1", 1)>>,
      <<Item("m1", "c2", 1), Item("m2", "c1", 2)>> }

Greeting == <<"W", "e", "l", "c", "o", "m", "e">>

----------------------------------------------------------------------------
(* useLocalStorage.ts *)

\* JS truthiness of a nullable string: null, undefined and "" are falsy
Truthy(o) == o # Null /\ Val(o) # <<>>

\* JSON.stringify of a string | null (the ids hold no character to escape)
JSONstringify(v) == IF v = Null THEN NullText ELSE <<Quote>> \o Val(v) \o <<Quote>>

\* JSON.parse restricted to the texts above: ok = FALSE stands for a SyntaxError
JSONparse(t) ==
    IF t = NullText
    THEN [ok |-> TRUE, value |-> Null]
    ELSE IF /\ Len(t) >= 2
            /\ t[1] = Quote
            /\ t[Len(t)] = Quote
            /\ \A i \in 2..(Len(t) - 1) : t[i] # Quote
         THEN [ok |-> TRUE, value |-> Some(SubSeq(t, 2, Len(t) - 1))]
         ELSE [ok |-> FALSE, value |-> Null]

\* the lazy initial state of useState: the stored value, or initialValue
ReadThrough(item, initialValue) ==
    IF Truthy(item)
    THEN IF JSONparse(Val(item)).ok THEN JSONparse(Val(item)).value ELSE initialValue
    ELSE initialValue

\* setValue: the React state (kept only while the component is mounted) ...
SetStoredValue(value) == IF mounted THEN value ELSE sessionId
\* ... and the write-through to localStorage
SetItem(value) == Some(JSONstringify(value))

----------------------------------------------------------------------------
(* Calls on the outside world, as recorded in out *)

SetItemCall(value) == [call |-> "setItem", key |-> "session_id", text |-> JSONstringify(value)]
PostCall == [call |-> "post", url |-> "/api/session"]
DisconnectCall == [call |-> "disconnect"]
JoinSession(sid) == [call |-> "emit", ev |-> "join_session", session_id |-> sid]
LeaveSession(sid) == [call |-> "emit", ev |-> "leave_session", session_id |-> sid]
ChatMessage(sid, msg) ==
    [call |-> "emit", ev |-> "chat_message", session_id |-> sid, message |-> msg]
UpdateSequence(sid, msgId, c) ==
    [call |-> "emit", ev |-> "update_sequence", session_id |-> sid, msg_id |-> msgId,
     content |-> c]

IsEmit(c, ev) == c.call = "emit" /\ c.ev = ev

----------------------------------------------------------------------------
(* Initial state: the provider has rendered once and its mount effect has   *)
(* created the socket, registered the handlers and called socket.connect(). *)

\* the provider's runs hold no separate useLocalStorage instance
NoStore == [status |-> "none", written |-> <<>>]

InitialItems == {Null} \cup {Some(JSONstringify(v)) : v \in {Null} \cup {Some(s) : s \in StoredIds}}

Init ==
    /\ storage \in InitialItems
    /\ sessionId = ReadThrough(storage, Null)
    /\ capturedSessionId = sessionId
    /\ chat = <<>>
    /\ toolNotification = Null
    /\ sequence = <<>>
    /\ conn = "connecting"
    /\ mounted = TRUE
    /\ pending = 0
    /\ postCount = 0
    /\ connectCount = 0
    /\ sendCount = 0
    /\ editCount = 0
    /\ timers = <<>>
    /\ now = 0
    /\ inbound = <<>>
    /\ out = <<>>
    /\ last = [op |-> "mount"]
    /\ origin = <<>>
    /\ store = NoStore

----------------------------------------------------------------------------
(* SocketProvider: session negotiation *)

\* the events that originate a chat entry and have been handled so far: connect
\* events, chat_message arrivals and accepted user sends
Originated ==
    connectCount
    + Cardinality({i \in 1..Len(inbound) : inbound[i].kind = "chat_message"})
    + Cardinality({i \in 1..Len(chat) : chat[i].role = "user"})

\* the event now being handled, as the origin of a chat entry: its kind and its
\* place in the order of arrival
Origin(kind) == [kind |-> kind, ord |-> Originated + 1]

\* joinOrCreateSession up to its first suspension point: with an id it emits
\* join_session at once, without one it issues the creation request and waits
NeedsCreation(existing) == ~Truthy(existing)

StartNegotiation(existing) ==
    IF NeedsCreation(existing)
    THEN /\ pending' = pending + 1
         /\ postCount' = postCount + 1
         /\ out' = Append(out, PostCall)
    ELSE /\ out' = Append(out, JoinSession(existing))
         /\ UNCHANGED <<pending, postCount>>

\* mutant: join_session is emitted before the returned id is persisted
CreatedCallsJoinFirst(s) == <<JoinSession(Some(s)), SetItemCall(Some(s))>>

\* what the resumed joinOrCreateSession calls once the response holds id s
CreatedCalls(s) == <<SetItemCall(Some(s)), JoinSession(Some(s))>>

\* mutant: the catch block clears the id but does not negotiate again
FailedCallsNoRetry == <<SetItemCall(Null)>>

\* what the catch block calls: setSessionId(null), then joinOrCreateSession(socket)
FailedCalls == <<SetItemCall(Null), PostCall>>

\* socket.on("connect"): the first connection or a reconnect of the same socket
OnConnect ==
    /\ conn \in {"connecting", "dropped"}
    /\ connectCount < MaxConnects
    /\ NeedsCreation(capturedSessionId) => postCount < MaxPosts
    /\ conn' = "connected"
    /\ connectCount' = connectCount + 1
    /\ StartNegotiation(capturedSessionId)
    /\ chat' = Append(chat, [role |-> "assistant", content |-> Greeting])
    /\ origin' = Append(origin, Origin("connect"))
    /\ last' = [op |-> "connect"]
    /\ UNCHANGED <<storage, sessionId, capturedSessionId, store, toolNotification,
                   sequence, mounted, sendCount, editCount, timers, now,
                   inbound>>

\* the transport is lost; socket.io reconnects the same socket by itself
Drop ==
    /\ conn = "connected"
    /\ conn' = "dropped"
    /\ last' = [op |-> "drop"]
    /\ UNCHANGED <<storage, sessionId, capturedSessionId, store, chat, origin,
                   toolNotification, sequence, mounted, pending, postCount,
                   connectCount, sendCount, editCount, timers, now, inbound,
                   out>>

\* axios.post resolves with { session_id: s }
PostSucceeds(s) ==
    /\ pending > 0
    /\ pending' = pending - 1
    /\ sessionId' = SetStoredValue(Some(s))
    /\ storage' = SetItem(Some(s))
    /\ out' = out \o CreatedCalls(s)
    /\ last' = [op |-> "created", id |-> s]
    /\ UNCHANGED <<capturedSessionId, store, chat, origin, toolNotification, sequence,
                   conn, mounted, postCount, connectCount, sendCount, editCount,
                   timers, now, inbound>>

\* axios.post rejects
PostFails ==
    /\ pending > 0
    /\ postCount < MaxPosts
    /\ sessionId' = SetStoredValue(Null)
    /\ storage' = SetItem(Null)
    /\ out' = out \o FailedCalls
    /\ postCount' = postCount + 1
    /\ last' = [op |-> "failed"]
    /\ UNCHANGED <<capturedSessionId, store, chat, origin, toolNotification, sequence,
                   conn, mounted, pending, connectCount, sendCount, editCount,
                   timers, now, inbound>>

\* mutant: the cleanup skips leave_session when it holds no session id
CleanupCallsOnlyWithId ==
    IF capturedSessionId = Null
    THEN <<DisconnectCall>>
    ELSE <<LeaveSession(capturedSessionId), DisconnectCall>>

\* the effect cleanup
CleanupCalls == <<LeaveSession(capturedSessionId), DisconnectCall>>

Teardown ==
    /\ mounted
    /\ mounted' = FALSE
    /\ conn' = "closed"
    /\ out' = out \o CleanupCalls
    /\ last' = [op |-> "teardown"]
    /\ UNCHANGED <<storage, sessionId, capturedSessionId, store, chat, origin,
                   toolNotification, sequence, pending, postCount, connectCount,
                   sendCount, editCount, timers, now, inbound>>

----------------------------------------------------------------------------
(* SocketProvider and its callers: outbound user actions *)

IsSpace(ch) == ch = " "

RECURSIVE TrimStart(_)
TrimStart(t) ==
    IF t # <<>> /\ IsSpace(Head(t)) THEN TrimStart(Tail(t)) ELSE t

RECURSIVE TrimEnd(_)
TrimEnd(t) ==
    IF t # <<>> /\ IsSpace(t[Len(t)]) THEN TrimEnd(SubSeq(t, 1, Len(t) - 1)) ELSE t

\* String.prototype.trim
Trim(t) == TrimEnd(TrimStart(t))

\* mutant: the guard tests the input without trimming it
RejectedOnlyEmpty(input) == input = <<>>

\* ChatPanel.handleSend: if (!input.trim()) return;
Rejected(input) == Trim(input) = <<>>

\* sendMessage(msg)
\* mutant: the user's entry is put in front of the log
SendMessagePrepend(msg) ==
    /\ out' = Append(out, ChatMessage(sessionId, msg))
    /\ chat' = <<[role |-> "user", content |-> msg]>> \o chat
    /\ origin' = <<Origin("send")>> \o origin

SendMessage(msg) ==
    /\ out' = Append(out, ChatMessage(sessionId, msg))
    /\ chat' = Append(chat, [role |-> "user", content |-> msg])
    /\ origin' = Append(origin, Origin("send"))

HandleSend(input) ==
    /\ mounted
    /\ sendCount < MaxSends
    /\ sendCount' = sendCount + 1
    /\ IF Rejected(input) THEN UNCHANGED <<out, chat, origin>> ELSE SendMessage(input)
    /\ last' = [op |-> "handleSend", input |-> input]
    /\ UNCHANGED <<storage, sessionId, capturedSessionId, store, toolNotification,
                   sequence, conn, mounted, pending, postCount, connectCount,
                   editCount, timers, now, inbound>>

\* mutant: the new content is written into every item
ReplaceContentEverywhere(messages, msgId, newContent) ==
    [i \in 1..Len(messages) |-> [messages[i] EXCEPT !.content = newContent]]

\* messages.map((msg) => (msg.id === msgId ? { ...msg, content: newContent } : msg))
ReplaceContent(messages, msgId, newContent) ==
    [i \in 1..Len(messages) |->
        IF messages[i].id = msgId
        THEN [messages[i] EXCEPT !.content = newContent]
        ELSE messages[i]]

SendSequenceUpdate(msgId, newContent) ==
    /\ mounted
    /\ editCount < MaxEdits
    /\ editCount' = editCount + 1
    /\ sequence' = ReplaceContent(sequence, msgId, newContent)
    /\ out' = Append(out, UpdateSequence(sessionId, msgId, newContent))
    /\ last' = [op |-> "edit", id |-> msgId, content |-> newContent]
    /\ UNCHANGED <<storage, sessionId, capturedSessionId, store, chat, origin,
                   toolNotification, conn, mounted, pending, postCount,
                   connectCount, sendCount, timers, now, inbound>>

----------------------------------------------------------------------------
(* SocketProvider: inbound events and their delayed handlers *)

Arrival(kind) == [kind |-> kind, at |-> now]

\* mutant: the callback is scheduled without the delay
DueTimeNoDelay(at) == at

\* setTimeout(..., 2000): the callback is due Delay after the event's arrival
DueTime(at) == at + Delay

\* socket.on("tool_call")
NotificationFor(message) == Some(message)

OnToolCall(message) ==
    /\ conn = "connected"
    /\ Len(inbound) < MaxInbound
    /\ toolNotification' = NotificationFor(message)
    /\ inbound' = Append(inbound, Arrival("tool_call"))
    /\ last' = [op |-> "tool_call", message |-> message]
    /\ UNCHANGED <<storage, sessionId, capturedSessionId, store, chat, origin, sequence,
                   conn, mounted, pending, postCount, connectCount, sendCount,
                   editCount, timers, now, out>>

\* socket.on("chat_message")
OnChatMessage(role, message) ==
    /\ conn = "connected"
    /\ Len(inbound) < MaxInbound
    /\ timers' = Append(timers, [due |-> DueTime(now), kind |-> "chat_message",
                                 entry |-> [role |-> role, content |-> message],
                                 origin |-> Origin("chat_message")])
    /\ inbound' = Append(inbound, Arrival("chat_message"))
    /\ last' = [op |-> "chat_message"]
    /\ UNCHANGED <<storage, sessionId, capturedSessionId, store, chat, origin,
                   toolNotification, sequence, conn, mounted, pending, postCount,
                   connectCount, sendCount, editCount, now, out>>

\* socket.on("sequence_updated")
OnSequenceUpdated(snapshot) ==
    /\ conn = "connected"
    /\ Len(inbound) < MaxInbound
    /\ timers' = Append(timers, [due |-> DueTime(now), kind |-> "sequence_updated",
                                 snapshot |-> snapshot])
    /\ inbound' = Append(inbound, Arrival("sequence_updated"))
    /\ last' = [op |-> "sequence_updated"]
    /\ UNCHANGED <<storage, sessionId, capturedSessionId, store, chat, origin,
                   toolNotification, sequence, conn, mounted, pending, postCount,
                   connectCount, sendCount, editCount, now, out>>

\* mutant: the snapshot is merged into the local sequence, local content kept
MergeKeepingLocal(current, snapshot) ==
    [i \in 1..Len(snapshot) |->
        IF \E j \in 1..Len(current) : current[j].id = snapshot[i].id
        THEN [snapshot[i] EXCEPT !.content =
                 current[CHOOSE j \in 1..Len(current) : current[j].id = snapshot[i].id].content]
        ELSE snapshot[i]]

\* setSequence(data.sequence)
ReplaceSequence(current, snapshot) == snapshot

\* the callback of the oldest timer runs once its delay has elapsed; the state of an
\* unmounted component is gone, so its setters change nothing
TimerFires ==
    /\ timers # <<>>
    /\ Head(timers).due <= now
    /\ timers' = Tail(timers)
    /\ IF mounted
       THEN /\ toolNotification' = Null
            /\ IF Head(timers).kind = "chat_message"
               THEN /\ chat' = Append(chat, Head(timers).entry)
                    /\ origin' = Append(origin, Head(timers).origin)
                    /\ UNCHANGED sequence
               ELSE /\ sequence' = ReplaceSequence(sequence, Head(timers).snapshot)
                    /\ UNCHANGED <<chat, origin>>
       ELSE UNCHANGED <<toolNotification, chat, origin, sequence>>
    /\ last' = [op |-> "timer", live |-> mounted, timer |-> Head(timers)]
    /\ UNCHANGED <<storage, sessionId, capturedSessionId, store, conn, mounted, pending,
                   postCount, connectCount, sendCount, editCount, now, inbound,
                   out>>

Min(a, b) == IF a <= b THEN a ELSE b

\* time passes, but not beyond the moment the oldest timer is due
Tick ==
    /\ now < MaxTime
    /\ timers # <<>> => Head(timers).due > now
    /\ now' = IF timers # <<>>
              THEN Min(Min(now + Step, Head(timers).due), MaxTime)
              ELSE Min(now + Step, MaxTime)
    /\ UNCHANGED <<storage, sessionId, capturedSessionId, store, chat, origin,
                   toolNotification, sequence, conn, mounted, pending, postCount,
                   connectCount, sendCount, editCount, timers, inbound, out,
                   last>>

----------------------------------------------------------------------------

\* the session side: lifecycle, negotiation and the chat box
SessionNext ==
    \/ OnConnect
    \/ Drop
    \/ \E s \in NewIds : PostSucceeds(s)
    \/ PostFails
    \/ Teardown
    \/ \E input \in Inputs : HandleSend(input)

\* the event side: lifecycle, inbound events, their timers and sequence edits
EventNext ==
    \/ OnConnect
    \/ Teardown
    \/ \E m \in ToolMessages : OnToolCall(m)
    \/ \E r \in Roles, m \in ResultMessages : OnChatMessage(r, m)
    \/ \E snapshot \in Snapshots : OnSequenceUpdated(snapshot)
    \/ \E msgId \in ItemIds, c \in Contents : SendSequenceUpdate(msgId, c)
    \/ TimerFires
    \/ Tick

\* the conversation log: everything that appends to it, and the clock
ChatNext ==
    \/ OnConnect
    \/ Teardown
    \/ \E input \in Inputs : HandleSend(input)
    \/ \E r \in Roles, m \in ResultMessages : OnChatMessage(r, m)
    \/ TimerFires
    \/ Tick

\* the outreach sequence: snapshots from the server and local edits
EditNext ==
    \/ OnConnect
    \/ Teardown
    \/ \E snapshot \in Snapshots : OnSequenceUpdated(snapshot)
    \/ \E id \in ItemIds, c \in Contents : SendSequenceUpdate(id, c)
    \/ TimerFires
    \/ Tick

Next == SessionNext \/ EventNext \/ ChatNext \/ EditNext

\* The whole provider.  No guard of the session side reads what the event side
\* writes (toolNotification, sequence, timers, now, inbound), and no guard of the
\* event side reads storage, sessionId or pending, so each side is explored as a
\* specification of its own; the event side from a first visit (nothing stored).
Spec == Init /\ [][Next]_vars
SessionSpec == Init /\ [][SessionNext]_vars
FirstVisit == Init /\ storage = Null
EventSpec == FirstVisit /\ [][EventNext]_vars
ChatSpec == FirstVisit /\ [][ChatNext]_vars
EditSpec == Init /\ [][EditNext]_vars

----------------------------------------------------------------------------
(* Properties of the session side, checked under SessionSpec *)

Calls(P(_)) == {i \in 1..Len(out) : P(out[i])}
IsJoin(c) == IsEmit(c, "join_session")
IsLeave(c) == IsEmit(c, "leave_session")
IsDisconnect(c) == c.call = "disconnect"
IsPost(c) == c.call = "post"
IsSetItem(c) == c.call = "setItem"
IsSetNull(c) == IsSetItem(c) /\ c.text = NullText
IsSetId(c) == IsSetItem(c) /\ c.text # NullText
IsSessionScoped(c) == IsEmit(c, "chat_message") \/ IsEmit(c, "update_sequence")
LastCall == out[Len(out)]

\* C1: every chat_message and update_sequence that was emitted carries a non-null
\* session_id, i.e. none is emitted while sessionId is null.
C1_SessionScopedEventsCarryId ==
    \A i \in Calls(IsSessionScoped) : out[i].session_id # Null

\* C2: a connect event that finds a session id known (loaded at start or created by
\* an earlier negotiation) issues no creation request and emits join_session with
\* exactly that id.
C2_KnownIdIsJoinedWithoutCreation ==
    (last.op = "connect" /\ Truthy(sessionId)) => LastCall = JoinSession(sessionId)

\* C3: every emitted join_session carries a non-null id that is the persisted one at
\* the moment of emission, and after a creation the write of the returned id to
\* "session_id" comes right before the join_session carrying it.
C3_JoinCarriesPersistedId ==
    /\ \A i \in Calls(IsJoin) : Truthy(out[i].session_id)
    /\ (out # <<>> /\ IsJoin(LastCall)) =>
           /\ storage # Null
           /\ JSONparse(Val(storage)) = [ok |-> TRUE, value |-> LastCall.session_id]
    /\ last.op = "created" =>
           /\ Len(out) >= 2
           /\ out[Len(out) - 1] = SetItemCall(Some(last.id))
           /\ LastCall = JoinSession(Some(last.id))

C3_Witness ==
    /\ last.op = "created"
    /\ capturedSessionId = Null
    /\ IsJoin(LastCall)
    /\ storage = Some(JSONstringify(LastCall.session_id))

\* C4: before teardown nothing was left or closed; after teardown exactly one
\* leave_session was emitted and exactly one disconnect made, the leave_session
\* right before the disconnect, whatever the state at teardown was.
C4_TeardownLeavesThenCloses ==
    IF mounted
    THEN Calls(IsLeave) = {} /\ Calls(IsDisconnect) = {}
    ELSE /\ Cardinality(Calls(IsLeave)) = 1
         /\ Cardinality(Calls(IsDisconnect)) = 1
         /\ \A i \in Calls(IsLeave) : (i + 1) \in Calls(IsDisconnect)

C4_Witness ==
    /\ last.op = "teardown"
    /\ conn = "closed"
    /\ sessionId = Null
    /\ pending > 0
    /\ IsDisconnect(LastCall)
    /\ IsLeave(out[Len(out) - 1])

\* C5: the leave_session emitted by teardown carries the session id known at that
\* instant (teardown itself leaves sessionId as it was).
C5_LeaveCarriesCurrentId ==
    last.op = "teardown" => out[Len(out) - 1] = LeaveSession(sessionId)

BlankText(t) == \A i \in 1..Len(t) : t[i] = " "

\* C9: a send of empty or whitespace-only text appends nothing to the chat and
\* emits nothing; a send of any other text t appends exactly the entry
\* {role: user, content: t} and emits exactly one chat_message with message t.
C9_BlankSendChangesNothing ==
    [][\A input \in Inputs : HandleSend(input) =>
          IF BlankText(input)
          THEN out' = out /\ chat' = chat
          ELSE /\ chat' = Append(chat, [role |-> "user", content |-> input])
               /\ Len(out') = Len(out) + 1
               /\ SubSeq(out', 1, Len(out)) = out
               /\ IsEmit(out'[Len(out')], "chat_message")
               /\ out'[Len(out')].message = input]_vars

C9_Witness ==
    /\ last.op = "handleSend"
    /\ last.input # <<>>
    /\ BlankText(last.input)
    /\ Calls(IsSessionScoped) = {}
    /\ \A i \in 1..Len(chat) : chat[i].role # "user"

\* C10: a failed creation request emits no join_session, clears the held and the
\* persisted session id to null and issues a new creation request; every request
\* is in flight, has failed or has succeeded, and join_session was emitted exactly
\* once per success.
C10_FailureClearsAndRetries ==
    /\ last.op = "failed" =>
           /\ SubSeq(out, Len(out) - 1, Len(out)) = <<SetItemCall(Null), PostCall>>
           /\ mounted => sessionId = Null
           /\ storage = Some(JSONstringify(Null))
           /\ pending > 0
    /\ Cardinality(Calls(IsPost)) = postCount
    /\ postCount = pending + Cardinality(Calls(IsSetNull)) + Cardinality(Calls(IsSetId))
    /\ postCount > 0 => Cardinality(Calls(IsJoin)) = Cardinality(Calls(IsSetId))
    /\ \A i \in Calls(IsSetNull) : IsPost(out[i + 1])
    /\ \A i \in Calls(IsSetId) : IsJoin(out[i + 1])

C10_Witness ==
    /\ last.op = "created"
    /\ Cardinality(Calls(IsSetNull)) >= 2
    /\ Cardinality(Calls(IsJoin)) = 1
    /\ pending = 0

\* the disconnect made by teardown
DisconnectAt == CHOOSE i \in Calls(IsDisconnect) : TRUE

\* C14: once teardown has emitted leave_session and disconnected, the socket sees
\* no join_session and no further creation request is issued, whatever
\* negotiation was in flight at teardown.
C14_NoNegotiationAfterTeardown ==
    ~mounted => \A i \in Calls(IsJoin) \cup Calls(IsPost) : i < DisconnectAt

----------------------------------------------------------------------------
(* Properties of the event side, checked under EventSpec.  The provider's   *)
(* state exists while it is mounted, so they speak of the mounted provider. *)

Kinds == [i \in 1..Len(inbound) |-> inbound[i].kind]
ToolCalls == {i \in 1..Len(inbound) : inbound[i].kind = "tool_call"}
Results == {i \in 1..Len(inbound) : inbound[i].kind # "tool_call"}

\* C6: when the inbound events are a tool_call followed by a chat_message,
\* toolNotification is null before the tool_call, non-null from the tool_call's
\* arrival until the delay after the chat_message's arrival elapses (its timer
\* runs), and null from then on.
C6_NotificationSpansToolToDelayedResult ==
    mounted =>
        /\ Kinds = <<>> => toolNotification = Null
        /\ Kinds = <<"tool_call">> => toolNotification # Null
        /\ Kinds = <<"tool_call", "chat_message">> =>
               /\ now < inbound[2].at + Delay => toolNotification # Null
               /\ timers # <<>> => toolNotification # Null
               /\ (timers = <<>>) = (toolNotification = Null)
               /\ timers = <<>> => now >= inbound[2].at + Delay

C6_Witness ==
    /\ mounted
    /\ Kinds = <<"tool_call", "chat_message">>
    /\ last.op = "timer"
    /\ toolNotification = Null
    /\ now = inbound[2].at + Delay
    /\ inbound[2].at > inbound[1].at

\* the tool_call that set the current notification, and the first result after it
LastTool == CHOOSE i \in ToolCalls : \A j \in ToolCalls : j <= i
ResultsAfterLastTool == {i \in Results : i > LastTool}
FirstResultAfterLastTool ==
    CHOOSE i \in ResultsAfterLastTool : \A j \in ResultsAfterLastTool : i <= j

\* C7: once a tool_call T was followed by a result event R and no tool_call came
\* after T, the notification T set is still there at every moment before the delay
\* after R's arrival has elapsed, whatever timers were pending when T arrived.
C7_NotClearedBeforeResultDelay ==
    ( /\ mounted
      /\ ToolCalls # {}
      /\ ResultsAfterLastTool # {}
      /\ now < inbound[FirstResultAfterLastTool].at + Delay )
    => toolNotification # Null

ItemWith(items, id) == {i \in 1..Len(items) : items[i].id = id}

\* C8: when the delayed handler of a sequence_updated event runs, the visible
\* sequence is exactly the event's snapshot, whatever local edits came before.
C8_RemoteSnapshotWins ==
    (mounted /\ last.op = "timer" /\ last.live /\ last.timer.kind = "sequence_updated")
    => sequence = last.timer.snapshot

C8_Witness ==
    /\ mounted
    /\ last.op = "timer"
    /\ last.live
    /\ last.timer.kind = "sequence_updated"
    /\ \E e \in Calls(IsSessionScoped) :
          /\ out[e].ev = "update_sequence"
          /\ \E i \in ItemWith(sequence, out[e].msg_id) :
                /\ sequence[i].content # out[e].content
                /\ sequence[i] = last.timer.snapshot[i]

----------------------------------------------------------------------------
(* useLocalStorage.ts on its own: one key, instances constructed over what   *)
(* the medium holds.  store.written remembers the last setValue: <<>> when   *)
(* there was none, <<v>> after setValue(v).                                  *)

\* the values a caller may set, the defaults it may supply, and what the medium
\* may hold at the start: nothing, an empty text, a written value, or broken JSON
\* (cut short, an id stored without quotes, the text of an undefined value)
StoreValues == {Null, Some(<<>>), Some(<<"z">>), Some(<<"y", "z">>), Some(NullText)}
StoreDefaults == {Null, Some(<<>>), Some(<<"d">>)}
StoredTexts ==
    {Null, Some(<<>>), Some(<<"{">>), Some(<<Quote, "z">>), Some(<<"z">>),
     Some(<<"u", "n", "d", "e", "f", "i", "n", "e", "d">>)}
    \cup {Some(JSONstringify(v)) : v \in StoreValues}

StoreInit ==
    /\ storage \in StoredTexts
    /\ store = NoStore
    /\ sessionId = Null
    /\ capturedSessionId = Null
    /\ chat = <<>>
    /\ toolNotification = Null
    /\ sequence = <<>>
    /\ conn = "closed"
    /\ mounted = FALSE
    /\ pending = 0
    /\ postCount = 0
    /\ connectCount = 0
    /\ sendCount = 0
    /\ editCount = 0
    /\ timers = <<>>
    /\ now = 0
    /\ inbound = <<>>
    /\ out = <<>>
    /\ last = [op |-> "none"]
    /\ origin = <<>>

StoreUnchanged ==
    UNCHANGED <<sessionId, capturedSessionId, chat, toolNotification, sequence, conn,
                mounted, pending, postCount, connectCount, sendCount, editCount, timers,
                now, inbound, out, last, origin>>

\* useState(() => ...): a fresh instance reads the medium once, inside try/catch
StoreConstruct(initialValue) ==
    /\ store' = [status |-> "constructed", initialValue |-> initialValue,
                 storedValue |-> ReadThrough(storage, initialValue),
                 written |-> store.written]
    /\ UNCHANGED storage
    /\ StoreUnchanged

\* the body of useEffect(..., [key]): if (item) setStoredValue(JSON.parse(item)),
\* with no try/catch around it
ResyncRead(item, current) ==
    IF Truthy(item)
    THEN IF JSONparse(Val(item)).ok
         THEN [threw |-> FALSE, value |-> JSONparse(Val(item)).value]
         ELSE [threw |-> TRUE, value |-> current]
    ELSE [threw |-> FALSE, value |-> current]

StoreResync ==
    /\ store.status = "constructed"
    /\ store' = [store EXCEPT
                    !.status = IF ResyncRead(storage, store.storedValue).threw
                               THEN "threw" ELSE "synced",
                    !.storedValue = ResyncRead(storage, store.storedValue).value]
    /\ UNCHANGED storage
    /\ StoreUnchanged

\* setValue(value)
StoreSetValue(value) ==
    /\ store.status = "synced"
    /\ store' = [store EXCEPT !.storedValue = value, !.written = <<value>>]
    /\ storage' = SetItem(value)
    /\ StoreUnchanged

StoreNext ==
    \/ \E d \in StoreDefaults : StoreConstruct(d)
    \/ StoreResync
    \/ \E v \in StoreValues : StoreSetValue(v)

StoreSpec == StoreInit /\ [][StoreNext]_vars

\* what an instance should hold: the value last written, else the parsed stored
\* value, else (nothing stored, or a text that does not parse) the default
StoreExpected ==
    IF store.written # <<>>
    THEN store.written[1]
    ELSE IF storage # Null /\ JSONparse(Val(storage)).ok
         THEN JSONparse(Val(storage)).value
         ELSE store.initialValue

StoreRoundTrip ==
    store.status \in {"constructed", "synced"} => store.storedValue = StoreExpected

\* C11: an instance holds the value last written under its key, or the default
\* when the key is missing or its text malformed, and no read of a malformed text
\* raises an error, neither the read at construction nor the re-synchronising one.
C11_RoundTripAndNoReadError ==
    /\ StoreRoundTrip
    /\ store.status # "threw"

----------------------------------------------------------------------------
(* Properties of the conversation log, checked under ChatSpec *)

IsPrefix(a, b) == Len(a) <= Len(b) /\ SubSeq(b, 1, Len(a)) = a

\* entries in the order in which their originating events arrived
ArrivalOrdered ==
    \A i, j \in 1..Len(origin) : i < j => origin[i].ord < origin[j].ord

\* a chat_message result is delayed, a connect or a user send is not
Delayed(o) == o.kind = "chat_message"

\* arrival order among the delayed entries and among the immediate ones
ArrivalOrderedPerPolicy ==
    \A i, j \in 1..Len(origin) :
        (i < j /\ Delayed(origin[i]) = Delayed(origin[j])) => origin[i].ord < origin[j].ord

\* a delayed entry comes after an entry whose event arrived later, never before one
OnlyDelayedEntriesAreLate ==
    \A i, j \in 1..Len(origin) :
        (i < j /\ origin[i].ord > origin[j].ord) =>
            Delayed(origin[j]) /\ ~Delayed(origin[i])

\* C12 as stated: every step leaves the old log a prefix of the new one, and the
\* log is in the order of arrival of the entries' originating events (user send,
\* connect, chat_message arrival).
C12_AppendOnlyInArrivalOrder ==
    [][IsPrefix(chat, chat') /\ ArrivalOrdered']_vars

\* C12 amended: every step leaves the old log a prefix of the new one and appends
\* at most one entry; the entries of connects and user sends are in arrival order
\* among themselves, the entries of chat_message results are in arrival order
\* among themselves, and only a chat_message result entry, appended when its delay
\* elapses, comes after entries whose events arrived later than it.
C12_AppendOnlyInApplicationOrder ==
    [][/\ IsPrefix(chat, chat')
       /\ Len(chat') <= Len(chat) + 1
       /\ Len(origin') = Len(chat')
       /\ ArrivalOrderedPerPolicy'
       /\ OnlyDelayedEntriesAreLate']_vars

C12_Witness ==
    /\ mounted
    /\ last.op = "timer"
    /\ Len(chat) >= 3
    /\ \E i, j \in 1..Len(origin) :
          /\ i < j
          /\ origin[i].kind = "send"
          /\ origin[j].kind = "chat_message"
          /\ origin[j].ord < origin[i].ord

----------------------------------------------------------------------------
(* Properties of sendSequenceUpdate, checked under EditSpec *)

\* the fields of an OutreachMessage other than content
OtherFields == {"id", "type", "subject", "timing", "order"}

\* the step is a call of sendSequenceUpdate
IsEdit == editCount' = editCount + 1

\* C13: sendSequenceUpdate(id, c) keeps the length and order of the sequence,
\* leaves every item with another id as it was, changes nothing but content (to c)
\* in the items with that id, appends exactly one update_sequence call carrying the
\* session id, id and c, and leaves the chat log and toolNotification alone.
C13_EditChangesOnlyMatchingContent ==
    [][IsEdit =>
        /\ Len(sequence') = Len(sequence)
        /\ \A i \in 1..Len(sequence) :
              IF sequence[i].id = last'.id
              THEN /\ sequence'[i].content = last'.content
                   /\ \A f \in OtherFields : sequence'[i][f] = sequence[i][f]
              ELSE sequence'[i] = sequence[i]
        /\ (ItemWith(sequence, last'.id) = {} => sequence' = sequence)
        /\ Len(out') = Len(out) + 1
        /\ SubSeq(out', 1, Len(out)) = out
        /\ IsEmit(out'[Len(out')], "update_sequence")
        /\ out'[Len(out')].session_id = sessionId
        /\ out'[Len(out')].msg_id = last'.id
        /\ out'[Len(out')].content = last'.content
        /\ chat' = chat
        /\ toolNotification' = toolNotification]_vars

\* an edit has just changed one item of a two-item sequence and left the other
C13_Witness ==
    /\ last.op = "edit"
    /\ sessionId # Null
    /\ Len(sequence) = 2
    /\ \E i, j \in 1..2 :
          /\ sequence[i].id = last.id
          /\ sequence[i].content = last.content
          /\ sequence[j].id # last.id
          /\ sequence[j].content # last.content

====
